---- MODULE Spec2Model ----
(***************************************************************************)
(* Model of rschess (src/src/lib.rs): the File / Rank / Field coordinate   *)
(* enums, Direction and MoveVector, Field + Direction, the 64-bit Bitboard *)
(* with its bitwise algebra, and the SetFields / UnsetFields iterators.    *)
(*                                                                         *)
(* Enum values are modelled by their #[repr(u8)] discriminants.  A u64     *)
(* word is modelled as its eight little-endian bytes, bit i living in      *)
(* byte (i div 8) at position (i mod 8).  An Option is modelled as a set   *)
(* with at most one element.                                               *)
(***************************************************************************)
EXTENDS Integers, Sequences, FiniteSets, TLC

VARIABLES
    build,      \* cargo profile: "debug" (overflow checks on) or "release"
    panicked,   \* the program has aborted with a panic
    arg,        \* input byte / receiver Field of the coordinate operations
    dir,        \* input Direction of the coordinate operations
    fop,        \* coordinate operation applied last
    fout,       \* result of the coordinate operation applied last
    ffile,      \* f.file() computed by the round trip
    frank,      \* f.rank() computed by the round trip
    board,      \* Bitboard.board of the bitboard under test
    pre,        \* Bitboard.board before the last bitboard operation
    rhs,        \* right operand of the last bitwise operator
    res,        \* Bitboard returned by the last by-value operator
    bop,        \* bitboard operation applied last
    bfield,     \* Field argument of the last set / unset
    afterSet,   \* the last unset(f) directly followed a set(f) of the same f
    nops,       \* number of bitboard operations applied
    ideal,      \* the Fields the set / unset calls so far should have left
    kind,       \* live iterator: "set" (SetFields) or "unset" (UnsetFields)
    current,    \* cursor of the live iterator (u8)
    ret,        \* Option<Field> returned by the last next()
    ncalls,     \* calls to next() up to and including the first None
    terminated, \* some next() on the live iterator has returned None
    yielded,    \* Fields yielded by the live iterator before its first None
    overflowed, \* `self.current + 1` has overflowed on the live iterator
    drained     \* per kind: the yielded sequence of the last drained iterator

vars == <<build, panicked, arg, dir, fop, fout, ffile, frank,
          board, pre, rhs, res, bop, bfield, afterSet, nops, ideal,
          kind, current, ret, ncalls, terminated, yielded, overflowed,
          drained>>

coordVars == <<arg, dir, fop, fout, ffile, frank>>
boardVars == <<board, pre, rhs, res, bop, bfield, afterSet, nops, ideal>>
iterVars  == <<kind, current, ret, ncalls, terminated, yielded, overflowed,
               drained>>

----------------------------------------------------------------------------
(* Machine integers *)

Builds == {"debug", "release"}

U8_MAX == 255

\* Result of an operation that panicked (unwrap on None, checked overflow).
PANICKED == 1000

\* `x as i8` for a u8 x: reinterpret the bits.
AsI8(x) == IF x >= 128 THEN x - 256 ELSE x

\* `x as u8` for an i8 x: reinterpret the bits.
AsU8(x) == IF x < 0 THEN x + 256 ELSE x

\* i8 + i8: panics on overflow in debug builds, wraps in release builds.
I8Add(a, b) ==
    LET s == a + b IN
    IF a = PANICKED \/ b = PANICKED THEN PANICKED
    ELSE IF s >= -128 /\ s <= 127 THEN s
    ELSE IF build = "debug" THEN PANICKED
    ELSE AsI8(s % 256)

\* u8 + u8: panics on overflow in debug builds, wraps in release builds.
U8Add(a, b) ==
    LET s == a + b IN
    IF s <= U8_MAX THEN s
    ELSE IF build = "debug" THEN PANICKED
    ELSE s % 256

----------------------------------------------------------------------------
(* File, Rank, Field *)

File_INVALID == 255
Rank_INVALID == 255
Field_INVALID == 255

File_allowed_values == 0..7
Rank_allowed_values == 0..7

\* Field::allowed_values with an off-by-one upper end.
Field_allowed_values_mut == 0..64

Field_allowed_values == 0..63

File_is_valid(value) == value \in File_allowed_values
Rank_is_valid(value) == value \in Rank_allowed_values
Field_is_valid(value) == value \in Field_allowed_values

\* strum FromRepr: Some(variant) when a variant has this discriminant.
File_from_repr(value) ==
    IF value \in 0..7 \/ value = File_INVALID THEN {value} ELSE {}
Rank_from_repr(value) ==
    IF value \in 0..7 \/ value = Rank_INVALID THEN {value} ELSE {}
Field_from_repr(value) ==
    IF value \in 0..63 \/ value = Field_INVALID THEN {value} ELSE {}

\* Option::unwrap
Unwrap(opt) == IF opt = {} THEN PANICKED ELSE CHOOSE x \in opt : TRUE

File_from_u8(value) ==
    IF ~File_is_valid(value) THEN File_INVALID
    ELSE Unwrap(File_from_repr(value))

Rank_from_u8(value) ==
    IF ~Rank_is_valid(value) THEN Rank_INVALID
    ELSE Unwrap(Rank_from_repr(value))

Field_from_u8(value) ==
    IF ~Field_is_valid(value) THEN Field_INVALID
    ELSE Unwrap(Field_from_repr(value))

File_from_i8(value) ==
    IF value = PANICKED THEN PANICKED ELSE File_from_u8(AsU8(value))
Rank_from_i8(value) ==
    IF value = PANICKED THEN PANICKED ELSE Rank_from_u8(AsU8(value))

----------------------------------------------------------------------------
(* Direction, MoveVector *)

Directions ==
    {"NNWW", "NNW", "NN", "NNE", "NNEE",
     "NWW",  "NW",  "N",  "NE",  "NEE",
     "WW",   "W",   "H",  "E",   "EE",
     "SWW",  "SW",  "S",  "SE",  "SEE",
     "SSWW", "SSW", "SS", "SSE", "SSEE"}

MoveVector_add(self, other) ==
    <<I8Add(self[1], other[1]), I8Add(self[2], other[2])>>

RECURSIVE MoveVector_from(_)
MoveVector_from(value) ==
    LET F(x) == MoveVector_from(x) IN
    CASE value = "H" -> <<0, 0>>
      [] value = "N" -> <<0, 1>>
      [] value = "E" -> <<1, 0>>
      [] value = "S" -> <<0, -1>>
      [] value = "W" -> <<-1, 0>>
      [] value = "EE" -> MoveVector_add(F("E"), F("E"))
      [] value = "WW" -> MoveVector_add(F("W"), F("W"))
      [] value = "NN" -> MoveVector_add(F("N"), F("N"))
      [] value = "NE" -> MoveVector_add(F("N"), F("E"))
      [] value = "NW" -> MoveVector_add(F("N"), F("W"))
      [] value = "SS" -> MoveVector_add(F("S"), F("S"))
      [] value = "SE" -> MoveVector_add(F("S"), F("E"))
      [] value = "SW" -> MoveVector_add(F("S"), F("W"))
      [] value = "NNW" -> MoveVector_add(F("NN"), F("W"))
      [] value = "NNE" -> MoveVector_add(F("NN"), F("E"))
      [] value = "NWW" -> MoveVector_add(F("N"), F("WW"))
      [] value = "NEE" -> MoveVector_add(F("N"), F("EE"))
      [] value = "SWW" -> MoveVector_add(F("S"), F("WW"))
      [] value = "SEE" -> MoveVector_add(F("S"), F("EE"))
      [] value = "SSW" -> MoveVector_add(F("SS"), F("W"))
      [] value = "SSE" -> MoveVector_add(F("SS"), F("E"))
      [] value = "NNWW" -> MoveVector_add(F("NN"), F("WW"))
      [] value = "NNEE" -> MoveVector_add(F("NN"), F("EE"))
      [] value = "SSWW" -> MoveVector_add(F("SS"), F("WW"))
      [] value = "SSEE" -> MoveVector_add(F("SS"), F("EE"))

----------------------------------------------------------------------------
(* Field::new, Field::rank, Field::file, Field + Direction, Field::mv *)

Field_new(file, rank) ==
    IF file = PANICKED \/ rank = PANICKED THEN PANICKED
    ELSE IF file = File_INVALID THEN Field_INVALID
    ELSE IF rank = Rank_INVALID THEN Field_INVALID
    ELSE LET sum == U8Add(file, rank) IN
         IF sum = PANICKED THEN PANICKED
         ELSE IF Field_from_repr(sum) # {}
              THEN CHOOSE x \in Field_from_repr(sum) : TRUE
              ELSE Field_INVALID

Field_rank(self) ==
    IF Rank_from_repr(self \div 8) # {}
    THEN CHOOSE x \in Rank_from_repr(self \div 8) : TRUE
    ELSE Rank_INVALID

Field_file(self) ==
    IF File_from_repr(self \div 8) # {}
    THEN CHOOSE x \in File_from_repr(self \div 8) : TRUE
    ELSE File_INVALID

Field_add(self, direction) ==
    LET mv   == MoveVector_from(direction)
        file == I8Add(AsI8(Field_file(self)), mv[1])
        rank == I8Add(AsI8(Field_rank(self)), mv[2])
    IN  Field_new(File_from_i8(file), Rank_from_i8(rank))

Field_mv(self, direction) == Field_add(self, direction)

\* The values a Field can hold.
FieldValues == (0..63) \cup {Field_INVALID}
ValidFields == 0..63

----------------------------------------------------------------------------
(* u64 words as eight little-endian bytes *)

Pow2(n) == 2 ^ n

\* Bit i (0..63) of the word w, as 0 or 1.
Bit(w, i) == (w[(i \div 8) + 1] \div Pow2(i % 8)) % 2

\* The word whose 1 bits are exactly the indices in S.
RECURSIVE ByteOf(_, _, _)
ByteOf(S, k, n) ==
    IF n = 8 THEN 0
    ELSE (IF (8 * k + n) \in S THEN Pow2(n) ELSE 0) + ByteOf(S, k, n + 1)

WordOf(S) == [k \in 1..8 |-> ByteOf(S, k - 1, 0)]

\* Bitwise operators on a byte, bit by bit from the least significant.
RECURSIVE ByteOr(_, _, _)
ByteOr(x, y, n) ==
    IF n = 0 THEN 0
    ELSE (IF (x % 2) + (y % 2) > 0 THEN 1 ELSE 0)
         + 2 * ByteOr(x \div 2, y \div 2, n - 1)

RECURSIVE ByteAnd(_, _, _)
ByteAnd(x, y, n) ==
    IF n = 0 THEN 0
    ELSE ((x % 2) * (y % 2)) + 2 * ByteAnd(x \div 2, y \div 2, n - 1)

RECURSIVE ByteXor(_, _, _)
ByteXor(x, y, n) ==
    IF n = 0 THEN 0
    ELSE (((x % 2) + (y % 2)) % 2) + 2 * ByteXor(x \div 2, y \div 2, n - 1)

U64Or(a, b)  == [k \in 1..8 |-> ByteOr(a[k], b[k], 8)]
U64And(a, b) == [k \in 1..8 |-> ByteAnd(a[k], b[k], 8)]
U64Xor(a, b) == [k \in 1..8 |-> ByteXor(a[k], b[k], 8)]
U64Not(a)    == [k \in 1..8 |-> 255 - a[k]]

\* 1u64 << n for n in 0..63.
U64Shl1(n) == [k \in 1..8 |-> IF k = (n \div 8) + 1 THEN Pow2(n % 8) ELSE 0]

U64Zero == [k \in 1..8 |-> 0]

----------------------------------------------------------------------------
(* Bitboard *)

Bitboard_new(value) == value

\* `1u64 << index` with index >= 64: debug builds panic (shift overflow),
\* release builds mask the shift amount to its low six bits.
Bitboard_make_mask_panics(index) == build = "debug" /\ index >= 64

Bitboard_make_mask(index) == U64Shl1(index % 64)

Bitboard_set(self, field) == U64And(self, Bitboard_make_mask(field))

Bitboard_unset(self, field) ==
    U64And(self, U64Not(Bitboard_make_mask(field)))

Bitboard_get(self, field) ==
    U64Zero # U64And(self, Bitboard_make_mask(field))

Bitboard_is_set(self, field) == Bitboard_get(self, field)

Bitboard_bitor(self, other)  == Bitboard_new(U64Or(self, other))
Bitboard_bitand(self, other) == Bitboard_new(U64And(self, other))
Bitboard_bitxor(self, other) == Bitboard_new(U64Xor(self, other))
Bitboard_bitor_assign(self, other)  == U64Or(self, other)
Bitboard_bitand_assign(self, other) == U64And(self, other)

\* ^= implemented with the operator of |=.
Bitboard_bitxor_assign_mut(self, other) == U64Or(self, other)

Bitboard_bitxor_assign(self, other) == U64Xor(self, other)
Bitboard_not(self) == Bitboard_new(U64Not(self))

----------------------------------------------------------------------------
(* SetFields / UnsetFields iterators: one call to next() from cursor cur   *)
(* over the bitboard b.  overflow: `self.current + 1` overflowed; panic:   *)
(* the call aborted (debug build) before storing the cursor.               *)

RECURSIVE SetFields_next(_, _, _)
SetFields_next(b, cur, ovf) ==
    LET c == U8Add(cur, 1) IN
    IF c = PANICKED
    THEN [current |-> cur, ret |-> {}, panic |-> TRUE, overflow |-> TRUE]
    ELSE LET o == ovf \/ (cur = U8_MAX) IN
         IF ~File_is_valid(c)
         THEN [current |-> c, ret |-> {}, panic |-> FALSE, overflow |-> o]
         ELSE LET field == Field_from_u8(c) IN
              IF Bitboard_get(b, field) = TRUE
              THEN [current |-> c, ret |-> {field}, panic |-> FALSE,
                    overflow |-> o]
              ELSE SetFields_next(b, c, o)

RECURSIVE UnsetFields_next(_, _, _)
UnsetFields_next(b, cur, ovf) ==
    LET c == U8Add(cur, 1) IN
    IF c = PANICKED
    THEN [current |-> cur, ret |-> {}, panic |-> TRUE, overflow |-> TRUE]
    ELSE LET o == ovf \/ (cur = U8_MAX) IN
         IF ~File_is_valid(c)
         THEN [current |-> c, ret |-> {}, panic |-> FALSE, overflow |-> o]
         ELSE LET field == Field_from_u8(c) IN
              IF Bitboard_get(b, field) = FALSE
              THEN [current |-> c, ret |-> {field}, panic |-> FALSE,
                    overflow |-> o]
              ELSE UnsetFields_next(b, c, o)

Kinds == {"set", "unset"}

----------------------------------------------------------------------------
(* Inputs *)

\* Longest sequence of bitboard operations explored.
MaxOps == 2

\* Bitboards the runs start from and take as right operands.
SeedBoards ==
    { WordOf({}), WordOf(0..63), WordOf({27, 28}), WordOf({0, 7}),
      WordOf({7, 56}), WordOf({0, 2, 5, 9, 40, 63}) }

NoDrain == [done |-> FALSE, fields |-> <<>>]

CoordIdle ==
    /\ arg = 0 /\ dir = "H" /\ fop = "none"
    /\ fout = 0 /\ ffile = 0 /\ frank = 0

BoardIdle ==
    /\ pre = board /\ rhs = U64Zero /\ res = U64Zero
    /\ bop = "none" /\ bfield = 0 /\ afterSet = FALSE /\ nops = 0
    /\ ideal = {i \in 0..63 : Bit(board, i) = 1}

IterIdle ==
    /\ kind = "set" /\ current = 0 /\ ret = {} /\ ncalls = 0
    /\ terminated = FALSE /\ yielded = <<>> /\ overflowed = FALSE
    /\ drained = [k \in Kinds |-> NoDrain]

----------------------------------------------------------------------------
(* Coordinate operations: the inputs are drawn by Init, the actions apply  *)
(* one operation to them.                                                  *)

CoordStep(op, out) ==
    /\ ~panicked
    /\ fop' = op
    /\ fout' = out
    /\ panicked' = (out = PANICKED)
    /\ UNCHANGED <<build, arg, dir>>
    /\ UNCHANGED boardVars
    /\ UNCHANGED iterVars

\* Field::from(arg)
FieldFromByte ==
    /\ CoordStep("Field_from", Field_from_u8(arg))
    /\ UNCHANGED <<ffile, frank>>

\* File::from(arg)
FileFromByte ==
    /\ CoordStep("File_from", File_from_u8(arg))
    /\ UNCHANGED <<ffile, frank>>

\* Rank::from(arg)
RankFromByte ==
    /\ CoordStep("Rank_from", Rank_from_u8(arg))
    /\ UNCHANGED <<ffile, frank>>

\* f.mv(dir) for the Field f whose discriminant is arg
FieldMv ==
    /\ arg \in FieldValues
    /\ CoordStep("mv", Field_mv(arg, dir))
    /\ UNCHANGED <<ffile, frank>>

\* Field::new(f.file(), f.rank()) for the Field f whose discriminant is arg
FieldRoundTrip ==
    /\ arg \in FieldValues
    /\ ffile' = Field_file(arg)
    /\ frank' = Field_rank(arg)
    /\ CoordStep("new", Field_new(Field_file(arg), Field_rank(arg)))

Init ==
    /\ build \in Builds
    /\ panicked = FALSE
    /\ arg \in 0..U8_MAX
    /\ dir \in Directions
    /\ fop = "none" /\ fout = 0 /\ ffile = 0 /\ frank = 0
    /\ board = U64Zero
    /\ BoardIdle
    /\ IterIdle

Next ==
    \/ FieldFromByte
    \/ FileFromByte
    \/ RankFromByte
    \/ FieldMv
    \/ FieldRoundTrip

Spec == Init /\ [][Next]_vars

----------------------------------------------------------------------------
(* The direction table of the specification, and the Field it prescribes   *)
(* for f.mv(d): file = f mod 8, rank = f div 8.                            *)

TableDf(d) ==
    CASE d \in {"NNWW", "NWW", "WW", "SWW", "SSWW"} -> -2
      [] d \in {"NNW", "NW", "W", "SW", "SSW"} -> -1
      [] d \in {"NN", "N", "H", "S", "SS"} -> 0
      [] d \in {"NNE", "NE", "E", "SE", "SSE"} -> 1
      [] d \in {"NNEE", "NEE", "EE", "SEE", "SSEE"} -> 2

TableDr(d) ==
    CASE d \in {"NNWW", "NNW", "NN", "NNE", "NNEE"} -> 2
      [] d \in {"NWW", "NW", "N", "NE", "NEE"} -> 1
      [] d \in {"WW", "W", "H", "E", "EE"} -> 0
      [] d \in {"SWW", "SW", "S", "SE", "SEE"} -> -1
      [] d \in {"SSWW", "SSW", "SS", "SSE", "SSEE"} -> -2

TableMv(f, d) ==
    LET nf == (f % 8) + TableDf(d)
        nr == (f \div 8) + TableDr(d)
    IN  IF nf \in 0..7 /\ nr \in 0..7 THEN nf + 8 * nr ELSE Field_INVALID

\* C1: for every valid Field f and Direction d, f.mv(d) is the Field with
\* index (file+df) + 8*(rank+dr) when both new components are in 0..7 and
\* INVALID otherwise; in particular f.mv(H) = f.
C1_MvFollowsTable ==
    (fop = "mv" /\ arg \in ValidFields) =>
        /\ fout = TableMv(arg, dir)
        /\ (dir = "H" => fout = arg)

\* C2: for every valid Field f, Field::new(f.file(), f.rank()) = f, both
\* coordinates are non-INVALID, and index(f) = rank(f)*8 + file(f).
C2_FieldRoundTrip ==
    (fop = "new" /\ arg \in ValidFields) =>
        /\ fout = arg
        /\ ffile # File_INVALID
        /\ frank # Rank_INVALID
        /\ arg = frank * 8 + ffile

\* C6: for every Direction d, Field::INVALID.mv(d) is Field::INVALID, and
\* the operation neither panics nor overflows its signed-byte arithmetic.
C6_InvalidAbsorbing ==
    (fop = "mv" /\ arg = Field_INVALID) =>
        /\ fout = Field_INVALID
        /\ ~panicked

\* C7: for every byte v, Field::from(v) is the Field with value v when
\* v <= 63 and INVALID otherwise; File::from(v) and Rank::from(v) are the
\* variant with value v when v <= 7 and INVALID otherwise; nothing panics.
C7_FromByteTotal ==
    /\ fop = "Field_from" =>
           fout = (IF arg <= 63 THEN arg ELSE Field_INVALID)
    /\ fop = "File_from" =>
           fout = (IF arg <= 7 THEN arg ELSE File_INVALID)
    /\ fop = "Rank_from" =>
           fout = (IF arg <= 7 THEN arg ELSE Rank_INVALID)
    /\ fop \in {"Field_from", "File_from", "Rank_from"} => ~panicked

\* C7 witness: Field::from(64) has been evaluated and gave INVALID.
C7_Witness ==
    fop = "Field_from" /\ arg = 64 /\ fout = Field_INVALID /\ ~panicked

----------------------------------------------------------------------------
(* Bitboard operations on the bitboard under test *)

FieldsOf(w) == {i \in 0..63 : Bit(w, i) = 1}

BoardStep(op, f, r, newBoard, newRes, panics) ==
    /\ ~panicked
    /\ nops < MaxOps
    /\ nops' = nops + 1
    /\ bop' = op
    /\ bfield' = f
    /\ rhs' = r
    /\ pre' = board
    /\ panicked' = panics
    /\ board' = (IF panics THEN board ELSE newBoard)
    /\ res' = (IF panics THEN res ELSE newRes)
    /\ afterSet' = (op = "unset" /\ bop = "set" /\ bfield = f)
    /\ ideal' = (IF panics THEN ideal
                 ELSE IF op = "set" /\ f \in ValidFields THEN ideal \cup {f}
                 ELSE IF op = "unset" /\ f \in ValidFields THEN ideal \ {f}
                 ELSE FieldsOf(newBoard))
    /\ UNCHANGED build
    /\ UNCHANGED coordVars
    /\ UNCHANGED iterVars

\* b.set(f)
BoardSet ==
    \E f \in FieldValues :
        BoardStep("set", f, rhs, Bitboard_set(board, f), res,
                  Bitboard_make_mask_panics(f))

\* b.unset(f)
BoardUnset ==
    \E f \in FieldValues :
        BoardStep("unset", f, rhs, Bitboard_unset(board, f), res,
                  Bitboard_make_mask_panics(f))

\* b | r, b & r, b ^ r, !b: the result is a new Bitboard
BoardBitOr ==
    \E r \in SeedBoards :
        BoardStep("bitor", bfield, r, board, Bitboard_bitor(board, r), FALSE)

BoardBitAnd ==
    \E r \in SeedBoards :
        BoardStep("bitand", bfield, r, board, Bitboard_bitand(board, r), FALSE)

BoardBitXor ==
    \E r \in SeedBoards :
        BoardStep("bitxor", bfield, r, board, Bitboard_bitxor(board, r), FALSE)

BoardNot ==
    BoardStep("not", bfield, rhs, board, Bitboard_not(board), FALSE)

\* b |= r, b &= r, b ^= r
BoardBitOrAssign ==
    \E r \in SeedBoards :
        BoardStep("bitor_assign", bfield, r,
                  Bitboard_bitor_assign(board, r), res, FALSE)

BoardBitAndAssign ==
    \E r \in SeedBoards :
        BoardStep("bitand_assign", bfield, r,
                  Bitboard_bitand_assign(board, r), res, FALSE)

BoardBitXorAssign ==
    \E r \in SeedBoards :
        BoardStep("bitxor_assign", bfield, r,
                  Bitboard_bitxor_assign(board, r), res, FALSE)

InitBoard ==
    /\ build \in Builds
    /\ panicked = FALSE
    /\ CoordIdle
    /\ board \in SeedBoards
    /\ BoardIdle
    /\ IterIdle

\* set / unset on bitboards of any content built by the in-place operators
NextBoard ==
    \/ BoardSet
    \/ BoardUnset
    \/ BoardBitOrAssign
    \/ BoardBitAndAssign
    \/ BoardBitXorAssign

SpecBoard == InitBoard /\ [][NextBoard]_vars

\* the bitwise operators, by value and in place
NextBitwise ==
    \/ BoardBitOr
    \/ BoardBitAnd
    \/ BoardBitXor
    \/ BoardNot
    \/ BoardBitOrAssign
    \/ BoardBitAndAssign
    \/ BoardBitXorAssign

SpecBitwise == InitBoard /\ [][NextBitwise]_vars

\* C3: immediately after b.set(f) with f valid, b.get(f) is true; after
\* b.set(f) followed by b.unset(f), b.get(f) is false.
C3_SetThenGet ==
    /\ (bop = "set" /\ bfield \in ValidFields) =>
           (~panicked /\ Bitboard_get(board, bfield) = TRUE)
    /\ (bop = "unset" /\ afterSet /\ bfield \in ValidFields) =>
           (~panicked /\ Bitboard_get(board, bfield) = FALSE)

\* C5: b.set(Field::INVALID) and b.unset(Field::INVALID) complete without
\* panic and leave all 64 bits of b unchanged.
C5_InvalidSetterNoOp ==
    (bop \in {"set", "unset"} /\ bfield = Field_INVALID) =>
        (~panicked /\ \A i \in 0..63 : Bit(board, i) = Bit(pre, i))

\* C8: b.set(f) and b.unset(f) with f valid leave b.get(g) as it was for
\* every valid g # f, so that after any sequence of set / unset calls the
\* board holds the initial fields plus those last set minus those last unset.
C8_SetterFrame ==
    /\ (bop \in {"set", "unset"} /\ bfield \in ValidFields) =>
           \A g \in ValidFields \ {bfield} :
               Bitboard_get(board, g) = Bitboard_get(pre, g)
    /\ ~panicked => FieldsOf(board) = ideal

Or01(p, q)  == IF p = 1 \/ q = 1 THEN 1 ELSE 0
And01(p, q) == IF p = 1 /\ q = 1 THEN 1 ELSE 0
Xor01(p, q) == IF p # q THEN 1 ELSE 0
Not01(p)    == IF p = 1 THEN 0 ELSE 1

\* C9: bit i of a | b, a & b, a ^ b and !a is a_i OR b_i, a_i AND b_i,
\* a_i XOR b_i and NOT a_i for every i in 0..63, and |=, &=, ^= leave the
\* left operand equal to the result of the by-value operator.
C9_BitwiseOperators ==
    /\ bop = "bitor" =>
           \A i \in 0..63 : Bit(res, i) = Or01(Bit(pre, i), Bit(rhs, i))
    /\ bop = "bitand" =>
           \A i \in 0..63 : Bit(res, i) = And01(Bit(pre, i), Bit(rhs, i))
    /\ bop = "bitxor" =>
           \A i \in 0..63 : Bit(res, i) = Xor01(Bit(pre, i), Bit(rhs, i))
    /\ bop = "not" =>
           \A i \in 0..63 : Bit(res, i) = Not01(Bit(pre, i))
    /\ bop = "bitor_assign" =>
           /\ board = Bitboard_bitor(pre, rhs)
           /\ \A i \in 0..63 : Bit(board, i) = Or01(Bit(pre, i), Bit(rhs, i))
    /\ bop = "bitand_assign" =>
           /\ board = Bitboard_bitand(pre, rhs)
           /\ \A i \in 0..63 : Bit(board, i) = And01(Bit(pre, i), Bit(rhs, i))
    /\ bop = "bitxor_assign" =>
           /\ board = Bitboard_bitxor(pre, rhs)
           /\ \A i \in 0..63 : Bit(board, i) = Xor01(Bit(pre, i), Bit(rhs, i))
    /\ ~panicked

\* C9 witness: {A1, H1} ^ {H1, A8} has been evaluated and gave {A1, A8}.
C9_Witness ==
    /\ bop = "bitxor"
    /\ pre = WordOf({0, 7})
    /\ rhs = WordOf({7, 56})
    /\ res = WordOf({0, 56})

----------------------------------------------------------------------------
(* Iterators over the bitboard under test: one live iterator at a time *)

IterStep(r) ==
    /\ ~panicked
    /\ panicked' = r.panic
    /\ current' = r.current
    /\ ret' = r.ret
    /\ overflowed' = r.overflow
    /\ terminated' = (terminated \/ (~r.panic /\ r.ret = {}))
    /\ ncalls' = (IF terminated THEN ncalls ELSE ncalls + 1)
    /\ yielded' = (IF ~terminated /\ r.ret # {}
                   THEN Append(yielded, CHOOSE x \in r.ret : TRUE)
                   ELSE yielded)
    /\ drained' = (IF ~terminated /\ ~r.panic /\ r.ret = {}
                   THEN [drained EXCEPT
                            ![kind] = [done |-> TRUE, fields |-> yielded]]
                   ELSE drained)
    /\ UNCHANGED <<build, kind>>
    /\ UNCHANGED coordVars
    /\ UNCHANGED boardVars

\* SetFields::next
SetFieldsNext ==
    /\ kind = "set"
    /\ IterStep(SetFields_next(board, current, overflowed))

\* UnsetFields::next
UnsetFieldsNext ==
    /\ kind = "unset"
    /\ IterStep(UnsetFields_next(board, current, overflowed))

FreshIter(k) ==
    /\ kind = k /\ current = 0 /\ ret = {} /\ ncalls = 0
    /\ terminated = FALSE /\ yielded = <<>> /\ overflowed = FALSE

NewIter(k) ==
    /\ ~panicked
    /\ ~FreshIter(k)
    /\ kind' = k
    /\ current' = 0
    /\ ret' = {}
    /\ ncalls' = 0
    /\ terminated' = FALSE
    /\ yielded' = <<>>
    /\ overflowed' = FALSE
    /\ UNCHANGED <<build, panicked, drained>>
    /\ UNCHANGED coordVars
    /\ UNCHANGED boardVars

\* Bitboard::set_fields_iter
SetFieldsIter == NewIter("set")

\* Bitboard::unset_fields_iter
UnsetFieldsIter == NewIter("unset")

InitIter ==
    /\ build \in Builds
    /\ panicked = FALSE
    /\ CoordIdle
    /\ board \in SeedBoards
    /\ BoardIdle
    /\ \E k \in Kinds : FreshIter(k)
    /\ drained = [k \in Kinds |-> NoDrain]

NextIter ==
    \/ SetFieldsNext
    \/ UnsetFieldsNext
    \/ SetFieldsIter
    \/ UnsetFieldsIter

SpecIter == InitIter /\ [][NextIter]_vars

\* The indices i..63 whose bit in w is want (0 or 1), in ascending order.
RECURSIVE Ascending(_, _, _)
Ascending(w, want, i) ==
    IF i > 63 THEN <<>>
    ELSE (IF Bit(w, i) = want THEN <<i>> ELSE <<>>)
         \o Ascending(w, want, i + 1)

Range(q) == {q[n] : n \in 1..Len(q)}

\* C4: calling next() on a fresh set-fields iterator until None yields
\* exactly the fields whose bit is 1, each once, in ascending order; a fresh
\* unset-fields iterator yields exactly those whose bit is 0; the two sets
\* are disjoint and together are all 64 fields.
C4_IteratorsEnumerate ==
    /\ drained["set"].done =>
           drained["set"].fields = Ascending(board, 1, 0)
    /\ drained["unset"].done =>
           drained["unset"].fields = Ascending(board, 0, 0)
    /\ (drained["set"].done /\ drained["unset"].done) =>
           /\ Range(drained["set"].fields)
                  \cap Range(drained["unset"].fields) = {}
           /\ Range(drained["set"].fields)
                  \cup Range(drained["unset"].fields) = 0..63

\* C10: an iterator returns None after at most 65 calls to next(), and once
\* next() has returned None every later call returns None as well, without
\* panicking, without overflowing the 8-bit cursor, yielding nothing more.
C10_StaysTerminated ==
    /\ ncalls <= 65
    /\ terminated => (ret = {} /\ ~panicked /\ ~overflowed)

====
